---- MODULE Spec2Model ----
(***************************************************************************)
(* The Arkivum storage backend (locations/models/arkivum.py): registration *)
(* of a stored package with the appliance, status retrieval, status        *)
(* reconciliation, the locality probe and the fixity outcome mapping.      *)
(*                                                                         *)
(* One package is followed.  Every public method is one action; the        *)
(* appliance's answer to each request the method sends is drawn when the   *)
(* request is sent.  A method's outcome is a record                        *)
(*     [w |-> world after the call, exc |-> exception raised or NoExc,     *)
(*      ret |-> value returned]                                            *)
(* and a method that talks to the appliance is the SET of its outcomes.    *)
(***************************************************************************)
EXTENDS Integers, Sequences, FiniteSets, TLC

\* Bounds of the model.
MaxIds == 2        \* distinct request identifiers the appliance hands out
MaxFailures == 2   \* longest "failures" list in a status payload

\* requests.codes.ok / requests.codes.accepted
HTTP_OK == 200
HTTP_ACCEPTED == 202

(***************************************************************************)
(* Python / JSON values, tagged by type.  A str is a sequence of           *)
(* characters; a dict is a function from its keys.                         *)
(***************************************************************************)
None == [t |-> "None"]
Str(s) == [t |-> "str", v |-> s]
Bool(b) == [t |-> "bool", v |-> b]
List(l) == [t |-> "list", v |-> l]
Dict(d) == [t |-> "dict", v |-> d]
Absent == [t |-> "absent"]     \* a key that the dict does not have

EmptyDict == [k \in {} |-> None]

\* bool(v)
Truthy(v) ==
    CASE v.t = "None" -> FALSE
      [] v.t = "bool" -> v.v
      [] v.t = "str"  -> Len(v.v) > 0
      [] v.t = "list" -> Len(v.v) > 0
      [] v.t = "dict" -> DOMAIN v.v # {}

\* d.get(k, default)
Get(d, k, default) == IF k \in DOMAIN d THEN d[k] ELSE default

\* A mutant of Update: the dict is replaced by {k: v}.
UpdateReplacing(d, k, v) == [x \in {k} |-> v]

\* d.update({k: v})
Update(d, k, v) == [x \in DOMAIN d \cup {k} |-> IF x = k THEN v ELSE d[x]]

\* The dict holding the slots of s that are not Absent.
FromSlots(s) == [k \in {x \in DOMAIN s : s[x] # Absent} |-> s[k]]

UpperCase == <<"A","B","C","D","E","F","G","H","I","J","K","L","M",
               "N","O","P","Q","R","S","T","U","V","W","X","Y","Z">>
LowerCase == <<"a","b","c","d","e","f","g","h","i","j","k","l","m",
               "n","o","p","q","r","s","t","u","v","w","x","y","z">>

LowerChar(c) ==
    IF \E i \in DOMAIN UpperCase : UpperCase[i] = c
    THEN LowerCase[CHOOSE i \in DOMAIN UpperCase : UpperCase[i] = c]
    ELSE c

\* str.lower()
Lower(s) == [i \in DOMAIN s |-> LowerChar(s[i])]

S_green == <<"g","r","e","e","n">>
S_Green == <<"G","r","e","e","n">>
S_GREEN == <<"G","R","E","E","N">>
S_amber == <<"a","m","b","e","r">>

\* A translated message, with the value formatted into or appended to it.
Msg(text, with) == [text |-> text, with |-> with]

(***************************************************************************)
(* The package and the world a call acts on.                               *)
(***************************************************************************)
UPLOADED == "UPLOADED"
StatusValues == {"FAIL", "PENDING", UPLOADED}

RequestIds == {Str(<<ToString(i)>>) : i \in 1..MaxIds}

ID_KEY == "arkivum_identifier"

HasId(pkg) == ID_KEY \in DOMAIN pkg.misc_attributes

\* package.save(): the row takes the object's fields.
Save(w) == [w EXCEPT !.db = w.package]

\* The request req is put on the wire and the appliance answers r.
Send(w, req, r) ==
    [w EXCEPT !.wire = Append(@, [method |-> req.method, url |-> req.url,
                                  arg |-> req.arg, fault |-> r.fault,
                                  status_code |-> r.status_code,
                                  parsable |-> r.parsable, json |-> r.json])]

NoExc == "none"
Returned(w, v) == [w |-> w, exc |-> NoExc, ret |-> v]
Raised(w, e) == [w |-> w, exc |-> e, ret |-> None]

NotCalled == [called |-> FALSE, exc |-> NoExc, ret |-> EmptyDict]
CallOf(o) == [called |-> TRUE, exc |-> o.exc,
              ret |-> IF o.exc = NoExc THEN o.ret ELSE EmptyDict]

ErrorResult(msg) == [error |-> Bool(TRUE), error_message |-> msg]
IsError(d) == Truthy(Get(d, "error", None))

(***************************************************************************)
(* What the appliance may answer.                                          *)
(***************************************************************************)
\* requests raised instead of answering.
Fault(e) == [fault |-> e, status_code |-> 0, parsable |-> FALSE,
             decode_error |-> "ValueError", json |-> EmptyDict]
\* An answer whose body is not JSON; response.json() raises decode_error.
Garbled(code, e) == [fault |-> NoExc, status_code |-> code, parsable |-> FALSE,
                     decode_error |-> e, json |-> EmptyDict]
Answer(code, body) == [fault |-> NoExc, status_code |-> code, parsable |-> TRUE,
                       decode_error |-> "ValueError", json |-> body]

\* The class of the exception response.json() raises: json.JSONDecodeError
\* (or a subclass), or a ValueError that is none (simplejson's).
DecodeErrors == {"JSONDecodeError", "ValueError"}

PostResponses ==
    {Fault("ConnectionError"), Fault("Timeout")}
    \cup {Garbled(HTTP_OK, e) : e \in DecodeErrors}
    \cup {Answer(HTTP_OK, EmptyDict)}
    \cup {Answer(c, [id |-> i]) : c \in {HTTP_OK, HTTP_ACCEPTED, 500}, i \in RequestIds}

GetResponses(bodies) ==
    {Fault("ConnectionError")}
    \cup {Garbled(HTTP_OK, "ValueError")}
    \cup {Answer(c, EmptyDict) : c \in {HTTP_ACCEPTED, 404}}
    \cup {Answer(HTTP_OK, b) : b \in bodies}

ReplicationValues == {Str(S_green), Str(S_Green), Str(S_GREEN), Str(S_amber)}

S_Completed == <<"Completed">>
S_Scheduled == <<"Scheduled">>
S_Failed == <<"Failed">>

Failure(i) == Dict([reason |-> Str(<<"reason ", ToString(i)>>),
                    filepath |-> Str(<<"file ", ToString(i)>>)])
FailureList(n) == List([i \in 1..n |-> Failure(i)])

\* The appliance's date format, cut into date, "T", time and UTC offset.
T_checked == <<"2015-04-06", "T", "12:35:12", "+0000">>
T_garbage == <<"n/a">>

\* fileInformation of a compressed package, and the fileInfo payload of one
\* file of a bag: the locality flag and the appliance's id of the file.
LocalSlots ==
    {FromSlots([local |-> l, id |-> i]) :
       l \in {Absent, Bool(TRUE), Bool(FALSE)}, i \in {Absent, Str(<<"7">>)}}

\* The status payloads the appliance may answer with.  The payloads drawn
\* for a call differ in the keys that call reads; it reads no other key.

\* For update_package_status: the replication state.
ReplicationBodies(is_compressed) ==
    IF is_compressed
    THEN {FromSlots([fileInformation |-> f]) :
            f \in {Absent} \cup
                  {Dict(FromSlots([replicationState |-> r])) :
                     r \in {Absent, None} \cup ReplicationValues}}
    ELSE {FromSlots([replicationState |-> r]) :
            r \in {Absent, None} \cup ReplicationValues}

\* For is_file_local: the locality flag.
LocalBodies(is_compressed) ==
    IF is_compressed
    THEN {FromSlots([fileInformation |-> f]) :
            f \in {Absent} \cup {Dict(d) : d \in LocalSlots}}
    ELSE LocalSlots

\* For check_package_fixity: status, replicationState, failures and
\* fixityLastChecked.
FixityBodies ==
    {FromSlots([status |-> s, replicationState |-> r, failures |-> f,
                fixityLastChecked |-> t]) :
       s \in {Absent, Str(S_Completed), Str(S_Scheduled), Str(S_Failed)},
       r \in {Absent, Str(S_green), Str(S_GREEN), Str(S_amber)},
       f \in {Absent} \cup {FailureList(n) : n \in 0..MaxFailures},
       t \in {Absent, Str(T_checked), Str(T_garbage)}}

\* fileInfo payloads of bag-info.txt.
BagInfoBodies ==
    {FromSlots([replicationState |-> r]) :
       r \in {Absent, None} \cup ReplicationValues}

(***************************************************************************)
(* Registration.                                                           *)
(***************************************************************************)
\* package.current_location.relative_path, package.current_path
relative_path == <<"/", "a", "i", "p", "s">>
current_path == <<"b", "a", "g", "/">>

RECURSIVE Strip(_, _)
\* s.strip(c)
Strip(s, c) ==
    IF s # <<>> /\ Head(s) = c THEN Strip(Tail(s), c)
    ELSE IF s # <<>> /\ s[Len(s)] = c THEN Strip(SubSeq(s, 1, Len(s) - 1), c)
    ELSE s

\* os.path.relpath(destination_path, self.space.path)
destination_relpath == <<"a", "i", "p", "s", "/", "b", "a", "g">>

\* The POST: for a compressed package the URL ends with the relative
\* path; for a bag the payload carries the bagitPath.
RegistrationRequest(pkg) ==
    IF pkg.is_compressed
    THEN [method |-> "POST", url |-> "/api/2/files/release/",
          arg |-> Str(destination_relpath)]
    ELSE [method |-> "POST", url |-> "/api/3/ingest-manifest/release",
          arg |-> Str(<<"/">> \o destination_relpath)]

\* post_move_from_storage_service(staging_path, destination_path, package),
\* the appliance answering r.
post_move_from_storage_service(w, r) ==
    LET w1 == Send(w, RegistrationRequest(w.package), r) IN
    IF r.fault = "ConnectionError" THEN Raised(w1, "StorageException")
    ELSE IF r.fault # NoExc THEN Raised(w1, r.fault)
    ELSE IF r.status_code \notin {HTTP_OK, HTTP_ACCEPTED}
         THEN Raised(w1, "StorageException")
    ELSE IF ~r.parsable
         THEN IF r.decode_error = "JSONDecodeError"
              THEN Raised(w1, "StorageException")
              ELSE Raised(w1, r.decode_error)
    ELSE IF "id" \notin DOMAIN r.json THEN Raised(w1, "KeyError")
    ELSE Returned(
           Save([w1 EXCEPT !.package.misc_attributes =
                             Update(@, ID_KEY, r.json["id"])]),
           None)

(***************************************************************************)
(* Status retrieval.                                                       *)
(***************************************************************************)
\* A mutant of StatusRequest: the URL of the registration, keyed by path.
StatusRequestByPath(pkg) ==
    [method |-> "GET",
     url |-> IF pkg.is_compressed THEN "/api/2/files/release/"
                                  ELSE "/api/3/ingest-manifest/status/",
     arg |-> Str(destination_relpath)]

\* The status endpoint of the package's shape, keyed by the identifier.
StatusRequest(pkg) ==
    [method |-> "GET",
     url |-> IF pkg.is_compressed THEN "/api/2/files/release/"
                                  ELSE "/api/3/ingest-manifest/status/",
     arg |-> pkg.misc_attributes[ID_KEY]]

\* A GET whose failures are mapped to a structured error (the try/except,
\* the status check and the JSON parse shared by the status and bag-info
\* lookups).
GetJson(w, req, r, fetch_msg, parse_msg) ==
    LET w1 == Send(w, req, r) IN
    IF r.fault # NoExc THEN Returned(w1, ErrorResult(Msg(fetch_msg, None)))
    ELSE IF r.status_code # HTTP_OK
         THEN Returned(w1, ErrorResult(
                Msg("Response from Arkivum server was %(response)s", r.status_code)))
    ELSE IF ~r.parsable THEN Returned(w1, ErrorResult(Msg(parse_msg, None)))
    ELSE Returned(w1, r.json)

\* A mutant of NeedsRegistration: registers on every status retrieval.
NeedsRegistrationAlways(pkg) == TRUE

\* "If no request ID, try POSTing to Arkivum again"
NeedsRegistration(pkg) == ~HasId(pkg)

\* _get_package_info(package): the set of its outcomes, the appliance
\* answering the status request with a failure or with a body of `bodies`.
\* (package.fetch_local_path() and the reading of the PREMIS pointer file
\* are the host's and lxml's; they are taken to succeed.)
_get_package_info(w, bodies) ==
    LET registered ==
          IF NeedsRegistration(w.package)
          THEN {post_move_from_storage_service(w, r) : r \in PostResponses}
          ELSE {Returned(w, None)}
        then(o) ==
          IF o.exc # NoExc THEN {o}
          ELSE IF ~HasId(o.w.package)
               THEN {Returned(o.w, ErrorResult(Msg("Unable to contact Arkivum", None)))}
          ELSE {GetJson(o.w, StatusRequest(o.w.package), r,
                        "Error fetching package status",
                        "JSON could not be parsed from package info") :
                  r \in GetResponses(bodies)}
    IN  UNION {
          {[o2 EXCEPT !.w.info = CallOf(o2)] : o2 \in then(o)} : o \in registered}

BagInfoRequest(pkg) ==
    [method |-> "GET", url |-> "/api/2/files/fileInfo/",
     arg |-> Str(Strip(relative_path, "/") \o <<"/">> \o Strip(current_path, "/")
                 \o <<"/", "bag-info.txt">>)]

\* _get_baginfo_txt_info(package): the set of its outcomes.
_get_baginfo_txt_info(w) ==
    {[o EXCEPT !.w.baginfo = CallOf(o)] :
       o \in {GetJson(w, BagInfoRequest(w.package), r,
                      "Error fetching file info",
                      "JSON could not be parsed from file info") :
                r \in GetResponses(BagInfoBodies)}}

(***************************************************************************)
(* Status reconciliation.                                                  *)
(***************************************************************************)
\* A mutant of IsGreen: an exact comparison.
IsGreenExact(replication) == replication.v = S_green

\* replication.lower() == "green"
IsGreen(replication) == Lower(replication.v) = S_green

\* A mutant of Decide: a state that is not green takes the package back
\* to the status it has before the upload.
DecideBothWays(w, replication) ==
    IF replication.t # "str" THEN Raised(w, "AttributeError")
    ELSE LET w1 == Save([w EXCEPT !.package.status =
                             IF IsGreen(replication) THEN UPLOADED ELSE "PENDING"])
         IN  Returned(w1, <<Str(w1.package.status),
                            Msg("Replication status: ", replication)>>)

\* A mutant of Decide: the status returned is the one read before the
\* assignment.
DecideReturnsOldStatus(w, replication) ==
    IF replication.t # "str" THEN Raised(w, "AttributeError")
    ELSE LET w1 == IF IsGreen(replication)
                   THEN Save([w EXCEPT !.package.status = UPLOADED])
                   ELSE w
         IN  Returned(w1, <<Str(w.package.status),
                            Msg("Replication status: ", replication)>>)

\* Lines 318-323: the decision on the extracted replication state.
Decide(w, replication) ==
    IF replication.t # "str" THEN Raised(w, "AttributeError")
    ELSE LET w1 == IF IsGreen(replication)
                   THEN Save([w EXCEPT !.package.status = UPLOADED])
                   ELSE w
         IN  Returned(w1, <<Str(w1.package.status),
                            Msg("Replication status: ", replication)>>)

\* A mutant of ErrorReturn: the package's status stands where None does.
ErrorReturnStatus(o) ==
    Returned(o.w, <<Str(o.w.package.status), o.ret["error_message"]>>)

\* return (None, response_json["error_message"])
ErrorReturn(o) == Returned(o.w, <<None, o.ret["error_message"]>>)

\* A mutant of NeedsFallback: the fallback lookup is left out.
NeedsFallbackNever(replication) == FALSE

\* "if replication is None": the primary response gave no replicationState.
NeedsFallback(replication) == replication = None

\* update_package_status(package): the set of its outcomes.
update_package_status(w) ==
    LET after(o) ==
          IF o.exc # NoExc THEN {o}
          ELSE IF IsError(o.ret) THEN {ErrorReturn(o)}
          ELSE IF o.w.package.is_compressed
               THEN LET fi == Get(o.ret, "fileInformation", Dict(EmptyDict)) IN
                    {Decide(o.w, Get(fi.v, "replicationState", Str(<<>>)))}
          ELSE LET replication == Get(o.ret, "replicationState", None) IN
               IF NeedsFallback(replication)
               THEN UNION {
                      {IF IsError(b.ret) THEN ErrorReturn(b)
                       ELSE Decide(b.w, Get(b.ret, "replicationState", Str(<<>>)))}
                      : b \in _get_baginfo_txt_info(o.w)}
               ELSE {Decide(o.w, replication)}
    IN  UNION {after(o) :
                 o \in _get_package_info(w, ReplicationBodies(w.package.is_compressed))}

(***************************************************************************)
(* Locality check.                                                         *)
(***************************************************************************)
\* quote_plus(s, safe="/"), on letters, digits, ".", "/" and the space.
QuotePlus(s) == [i \in DOMAIN s |-> IF s[i] = " " THEN "+" ELSE s[i]]

\* The file the directory walk of the package finds first, if any.
WalkResults == {Absent, Str(<<"d", "a", "t", "a", "/", "f", " ", "1">>)}

Paths == {None, Str(<<>>)} \cup (WalkResults \ {Absent})

FileInfoRequest(pkg, path) ==
    [method |-> "GET", url |-> "/api/2/files/fileInfo/",
     arg |-> Str(QuotePlus(relative_path \o <<"/">> \o current_path \o <<"/">> \o path.v))]

\* django.core.mail.send_mail to the active superusers.
SendMail(w, item, package_id) ==
    [w EXCEPT !.mail = Append(@, [subject |-> "Arkivum file not locally available",
                                  item |-> item, package_id |-> package_id])]

\* A mutant of LocalAnswer: the mail goes out whatever the answer is.
LocalAnswerMailsAlways(w, package_info, path, email_nonlocal) ==
    LET w1 == IF email_nonlocal
              THEN SendMail(w,
                            IF Truthy(path) THEN Msg("File %(path)s in package %(package)s", path)
                                            ELSE Msg("Package %(package)s", None),
                            Get(package_info, "id", None))
              ELSE w
    IN  Returned(w1, Bool(Truthy(Get(package_info, "local", None))))

\* Lines 394-419: the answer read from package_info.
LocalAnswer(w, package_info, path, email_nonlocal) ==
    IF Truthy(Get(package_info, "local", None))
    THEN Returned(w, Bool(TRUE))
    ELSE Returned(
           IF email_nonlocal
           THEN SendMail(w,
                         IF Truthy(path) THEN Msg("File %(path)s in package %(package)s", path)
                                         ELSE Msg("Package %(package)s", None),
                         Get(package_info, "id", None))
           ELSE w,
           Bool(FALSE))

\* Lines 358-375: the per-file GET, whose failures give None.
FileInfoGet(w, path, r) ==
    LET w1 == Send(w, FileInfoRequest(w.package, path), r) IN
    IF r.fault # NoExc \/ r.status_code # HTTP_OK \/ ~r.parsable
    THEN [found |-> FALSE, w |-> w1, json |-> EmptyDict]
    ELSE [found |-> TRUE, w |-> w1, json |-> r.json]

RECURSIVE is_file_local(_, _, _)
\* is_file_local(package, path, email_nonlocal): the set of its outcomes.
is_file_local(w, path, email_nonlocal) ==
    IF w.package.is_compressed
    THEN {IF o.exc # NoExc THEN o
          ELSE IF IsError(o.ret) THEN Returned(o.w, None)
          ELSE IF "fileInformation" \notin DOMAIN o.ret THEN Raised(o.w, "KeyError")
          ELSE LocalAnswer(o.w, o.ret["fileInformation"].v, path, email_nonlocal)
          : o \in _get_package_info(w, LocalBodies(TRUE))}
    ELSE IF Truthy(path)
    THEN {LET g == FileInfoGet(w, path, r) IN
          IF g.found THEN LocalAnswer(g.w, g.json, path, email_nonlocal)
                     ELSE Returned(g.w, None)
          : r \in GetResponses(LocalSlots)}
    ELSE UNION {
           IF o.exc # NoExc THEN {o}
           ELSE IF IsError(o.ret) THEN {Returned(o.w, None)}
           ELSE IF "local" \notin DOMAIN o.ret
                THEN UNION {
                       IF file_path = Absent
                       THEN {Raised(o.w, "UnboundLocalError")}
                       ELSE is_file_local(o.w, file_path, email_nonlocal)
                       : file_path \in WalkResults}
           ELSE {LocalAnswer(o.w, o.ret, path, email_nonlocal)}
           : o \in _get_package_info(w, LocalBodies(FALSE))}

(***************************************************************************)
(* Fixity outcome mapping.                                                 *)
(***************************************************************************)
OffsetMinutes == [x \in {"+0000", "+0100", "Z"} |->
                    CASE x = "+0000" -> 0 [] x = "+0100" -> 60 [] x = "Z" -> 0]
OffsetText(m) == CASE m = 0 -> "+00:00" [] m = 60 -> "+01:00"

\* dateutil.parser.parse(s)
CanParseDate(s) == Len(s) = 4 /\ s[2] = "T" /\ s[4] \in DOMAIN OffsetMinutes
ParseDate(s) == [date |-> s[1], time |-> s[3], utcoffset |-> OffsetMinutes[s[4]]]
\* datetime.isoformat()
IsoFormat(dt) == <<dt.date, "T", dt.time, OffsetText(dt.utcoffset)>>

\* Lines 457-461: the timestamp, and the tuple returned.
FixityReturn(w, package_info, success, errors, message) ==
    LET timestamp == Get(package_info, "fixityLastChecked", None) IN
    IF ~Truthy(timestamp)
    THEN Returned(w, <<success, errors, message, timestamp>>)
    ELSE IF ~CanParseDate(timestamp.v) THEN Raised(w, "ValueError")
    ELSE Returned(w, <<success, errors, message,
                       Str(IsoFormat(ParseDate(timestamp.v)))>>)

\* Lines 443-461: the decision table on a payload that is no error.
FixityOutcome(w, package_info) ==
    LET errors == Get(package_info, "failures", List(<<>>))
        replication == Get(package_info, "replicationState", None)
    IN  IF "status" \notin DOMAIN package_info THEN Raised(w, "KeyError")
        ELSE IF package_info["status"] = Str(S_Completed) /\ replication = Str(S_green)
             THEN FixityReturn(w, package_info, Bool(TRUE), errors, Msg("", None))
        ELSE IF package_info["status"] = Str(S_Scheduled) \/ replication = Str(S_amber)
             THEN FixityReturn(w, package_info, None, errors,
                               Msg("Arkivum fixity check in progress", None))
        ELSE IF Len(errors.v) > 1
             THEN FixityReturn(w, package_info, Bool(FALSE), errors,
                               Msg("invalid bag", None))
        ELSE IF Len(errors.v) = 0 THEN Raised(w, "IndexError")
        ELSE FixityReturn(w, package_info, Bool(FALSE), errors,
                          errors.v[1].v["reason"])

\* A mutant of FixityErrorReturn: the outcome reads as "in progress".
FixityErrorReturnInProgress(o) ==
    Returned(o.w, <<None, List(<<>>), o.ret["error_message"], None>>)

\* return (False, [], package_info["error_message"], None)
FixityErrorReturn(o) ==
    Returned(o.w, <<Bool(FALSE), List(<<>>), o.ret["error_message"], None>>)

\* A mutant of FixityUnsupported: the status is fetched for every package.
FixityUnsupportedNever(pkg) == FALSE

\* "Arkivum does not implement fixity for compressed packages"
FixityUnsupported(pkg) == pkg.is_compressed

\* check_package_fixity(package): the set of its outcomes.
check_package_fixity(w) ==
    IF FixityUnsupported(w.package)
    THEN {Raised(w, "NotImplementedError")}
    ELSE {IF o.exc # NoExc THEN o
          ELSE IF IsError(o.ret) THEN FixityErrorReturn(o)
          ELSE FixityOutcome(o.w, o.ret)
          : o \in _get_package_info(w, FixityBodies)}

(***************************************************************************)
(* The state: the package object, its saved row, and the last call.        *)
(***************************************************************************)
VARIABLES
    package,   \* the Package object: is_compressed, status, misc_attributes
    db,        \* the package's row as last saved
    op,        \* the last call: its name and arguments
    before,    \* the package object when the last call began
    result,    \* the last call's outcome: exc, ret
    wire,      \* the requests the last call sent, in order
    info,      \* what _get_package_info gave the last call
    baginfo,   \* what _get_baginfo_txt_info gave the last call
    mail       \* the messages the last call mailed

vars == <<package, db, op, before, result, wire, info, baginfo, mail>>

World == [package |-> package, db |-> db, wire |-> <<>>,
          info |-> NotCalled, baginfo |-> NotCalled, mail |-> <<>>]

Call(name, path, email_nonlocal) ==
    [name |-> name, path |-> path, email_nonlocal |-> email_nonlocal]

\* The call `c` ends with outcome `o`.
Finish(c, o) ==
    /\ op' = c
    /\ before' = package
    /\ package' = o.w.package
    /\ db' = o.w.db
    /\ wire' = o.w.wire
    /\ info' = o.w.info
    /\ baginfo' = o.w.baginfo
    /\ mail' = o.w.mail
    /\ result' = [exc |-> o.exc, ret |-> o.ret]

InitialAttributes ==
    {FromSlots([arkivum_identifier |-> i, aip_subtype |-> s]) :
       i \in {Absent} \cup RequestIds, s \in {Absent, Str(<<"A">>)}}

Init ==
    /\ package \in [is_compressed : BOOLEAN, status : StatusValues,
                    misc_attributes : InitialAttributes]
    /\ db = package
    /\ op = Call("none", None, FALSE)
    /\ before = package
    /\ result = [exc |-> NoExc, ret |-> None]
    /\ wire = <<>>
    /\ info = NotCalled
    /\ baginfo = NotCalled
    /\ mail = <<>>

\* No call is under way: the calls are made one after the other.
Idle == op.name = "none"

\* The host registers the stored package (or moves something that is no
\* package: package is None and nothing is done).
Register ==
    /\ Idle
    /\ \/ \E r \in PostResponses :
            Finish(Call("post_move_from_storage_service", None, FALSE),
                   post_move_from_storage_service(World, r))
       \/ Finish(Call("post_move_from_storage_service(None)", None, FALSE),
                 Returned(World, None))

UpdatePackageStatus ==
    /\ Idle
    /\ \E o \in update_package_status(World) :
          Finish(Call("update_package_status", None, FALSE), o)

IsFileLocal ==
    /\ Idle
    /\ \E path \in Paths, email_nonlocal \in BOOLEAN :
          \E o \in is_file_local(World, path, email_nonlocal) :
             Finish(Call("is_file_local", path, email_nonlocal), o)

CheckPackageFixity ==
    /\ Idle
    /\ \E o \in check_package_fixity(World) :
          Finish(Call("check_package_fixity", None, FALSE), o)

\* The caller takes the outcome of the call; the package stays as the call
\* left it.
Return ==
    /\ ~Idle
    /\ op' = Call("none", None, FALSE)
    /\ before' = package
    /\ result' = [exc |-> NoExc, ret |-> None]
    /\ wire' = <<>>
    /\ info' = NotCalled
    /\ baginfo' = NotCalled
    /\ mail' = <<>>
    /\ UNCHANGED <<package, db>>

Next ==
    \/ Register
    \/ UpdatePackageStatus
    \/ IsFileLocal
    \/ CheckPackageFixity
    \/ Return

Spec == Init /\ [][Next]_vars

(***************************************************************************)
(* What the last call did, read from the state.                            *)
(***************************************************************************)
StatusOps == {"update_package_status", "is_file_local", "check_package_fixity"}

\* _get_package_info returned a payload that is no structured error.
GotInfo == info.called /\ info.exc = NoExc /\ ~IsError(info.ret)
\* _get_package_info returned a structured error.
GotInfoError == info.called /\ info.exc = NoExc /\ IsError(info.ret)
GotBagInfo == baginfo.called /\ ~IsError(baginfo.ret)

Posts == {i \in DOMAIN wire : wire[i].method = "POST"}
StatusGets ==
    {i \in DOMAIN wire :
       /\ wire[i].method = "GET"
       /\ wire[i].url \in {"/api/2/files/release/", "/api/3/ingest-manifest/status/"}}
BagInfoLookups ==
    {i \in DOMAIN wire :
       /\ wire[i].method = "GET"
       /\ wire[i].url = "/api/2/files/fileInfo/"
       /\ wire[i].arg = Str(<<"a", "i", "p", "s", "/", "b", "a", "g",
                               "/", "bag-info.txt">>)}

\* The request did not bring back a parsed body of a success status.
FailedRequest(e) ==
    \/ e.fault # NoExc
    \/ ~e.parsable
    \/ e.method = "GET" /\ e.status_code # HTTP_OK
    \/ e.method = "POST" /\ e.status_code \notin {HTTP_OK, HTTP_ACCEPTED}

\* The replicationState at the path of the package's shape: in
\* fileInformation for a compressed package; at the top level for a bag,
\* and in the bag-info.txt payload when the top level has none.
ExtractedReplication ==
    IF ~GotInfo THEN Absent
    ELSE IF before.is_compressed
         THEN Get(Get(info.ret, "fileInformation", Dict(EmptyDict)).v,
                  "replicationState", Str(<<>>))
    ELSE IF Get(info.ret, "replicationState", None) # None
         THEN info.ret["replicationState"]
    ELSE IF GotBagInfo THEN Get(baginfo.ret, "replicationState", Str(<<>>))
    ELSE Absent

\* v is the text "green" in some letter case.
AnyCaseGreen(v) ==
    /\ v.t = "str"
    /\ Len(v.v) = 5
    /\ \A i \in 1..5 : v.v[i] \in {S_green[i], S_GREEN[i]}

(***************************************************************************)
(* C1. update_package_status sets the package's status to UPLOADED and     *)
(* saves it when the extracted replicationState is "green" in any letter   *)
(* case; for any other value, and when no value is extracted, the status   *)
(* of the object and of the saved row is the one before the call.          *)
(***************************************************************************)
C1_GreenSetsUploaded ==
    op.name = "update_package_status" =>
       IF AnyCaseGreen(ExtractedReplication)
       THEN package.status = UPLOADED /\ db.status = UPLOADED
       ELSE package.status = before.status /\ db.status = before.status

C1_Witness ==
    /\ op.name = "update_package_status"
    /\ ~before.is_compressed
    /\ ExtractedReplication = Str(S_Green)
    /\ before.status = "FAIL"
    /\ package.status = UPLOADED

(***************************************************************************)
(* C2. For a bag whose primary status payload gives no replicationState    *)
(* (the key is absent, or null: the code's "is None"),                     *)
(* update_package_status sends the bag-info.txt lookup exactly once and    *)
(* decides on that payload's replicationState; when the primary payload    *)
(* gives one, when it is an error, or when the package is compressed, the  *)
(* lookup is not sent.                                                     *)
(***************************************************************************)
C2_FallbackExactlyOnce ==
    op.name = "update_package_status" =>
       LET lacks == /\ GotInfo
                    /\ ~before.is_compressed
                    /\ Get(info.ret, "replicationState", None) = None
       IN  /\ Cardinality(BagInfoLookups) = (IF lacks THEN 1 ELSE 0)
           /\ baginfo.called = lacks
           /\ (/\ lacks
               /\ GotBagInfo
               /\ Get(baginfo.ret, "replicationState", None).t = "str")
              => /\ result.exc = NoExc
                 /\ result.ret[2] = Msg("Replication status: ",
                                        baginfo.ret["replicationState"])
                 /\ AnyCaseGreen(baginfo.ret["replicationState"])
                    => package.status = UPLOADED

C2_Witness ==
    /\ op.name = "update_package_status"
    /\ ~before.is_compressed
    /\ GotInfo
    /\ "replicationState" \notin DOMAIN info.ret
    /\ Cardinality(BagInfoLookups) = 1
    /\ GotBagInfo
    /\ baginfo.ret = [replicationState |-> Str(S_green)]
    /\ before.status = "PENDING"
    /\ package.status = UPLOADED

(***************************************************************************)
(* C3. A status operation on a package that carries a request identifier   *)
(* sends no registration POST, and the package carries the identifier      *)
(* afterwards.                                                             *)
(***************************************************************************)
C3_NoSecondRegistration ==
    (op.name \in StatusOps /\ HasId(before)) => Posts = {} /\ HasId(package)

C3_Witness ==
    /\ op.name = "is_file_local"
    /\ before.is_compressed
    /\ HasId(before)
    /\ info.called
    /\ StatusGets # {}

(***************************************************************************)
(* C4. A status operation leaves a recorded request identifier as it is,   *)
(* and every status GET it sends carries the package's identifier.         *)
(***************************************************************************)
C4_IdentifierReused ==
    op.name \in StatusOps =>
       /\ HasId(before) =>
            /\ HasId(package)
            /\ package.misc_attributes[ID_KEY] = before.misc_attributes[ID_KEY]
       /\ \A i \in StatusGets :
            /\ HasId(package)
            /\ wire[i].arg = package.misc_attributes[ID_KEY]

C4_Witness ==
    /\ op.name = "update_package_status"
    /\ HasId(before)
    /\ before.misc_attributes[ID_KEY] = Str(<<"2">>)
    /\ StatusGets # {}
    /\ GotInfo

(***************************************************************************)
(* C5. _get_package_info raises nothing: whenever one of its requests      *)
(* fails (an exception of the network, a status that is no success, a      *)
(* body that does not parse) it returns the structured error               *)
(* {error: True, error_message: ...}.                                      *)
(***************************************************************************)
C5_StatusRetrievalNeverRaises ==
    info.called =>
       /\ info.exc = NoExc
       /\ (\E i \in Posts \cup StatusGets : FailedRequest(wire[i]))
          => IsError(info.ret) /\ "error_message" \in DOMAIN info.ret

(***************************************************************************)
(* C6. is_file_local returns None whenever a request sent for it fails at  *)
(* the transport layer, and returns False only after a request that        *)
(* succeeded.                                                              *)
(***************************************************************************)
C6_TransportFailureGivesNone ==
    op.name = "is_file_local" =>
       /\ (\E i \in DOMAIN wire : wire[i].fault # NoExc)
          => result.exc = NoExc /\ result.ret = None
       /\ (result.exc = NoExc /\ result.ret = Bool(FALSE))
          => wire # <<>> /\ ~FailedRequest(wire[Len(wire)])

(***************************************************************************)
(* C7. check_package_fixity on a bag follows the decision table:           *)
(* {status: Completed, replicationState: green} gives                      *)
(* (True, [], "", timestamp); {status: Scheduled} gives                    *)
(* (None, [], in progress, None); {failures: [a, b]} gives                 *)
(* (False, [a, b], "invalid bag", None); {failures: [a]} gives             *)
(* (False, [a], a's reason, None).                                         *)
(***************************************************************************)
FixityOf(body) ==
    /\ op.name = "check_package_fixity"
    /\ ~before.is_compressed
    /\ GotInfo
    /\ info.ret = body

FixityGave(success, errors, message, timestamp) ==
    /\ result.exc = NoExc
    /\ result.ret = <<success, errors, message, timestamp>>

C7_FixityDecisionTable ==
    /\ FixityOf([status |-> Str(S_Completed), replicationState |-> Str(S_green)])
       => FixityGave(Bool(TRUE), List(<<>>), Msg("", None), None)
    /\ FixityOf([status |-> Str(S_Completed), replicationState |-> Str(S_green),
                 fixityLastChecked |-> Str(T_checked)])
       => FixityGave(Bool(TRUE), List(<<>>), Msg("", None),
                     Str(<<"2015-04-06", "T", "12:35:12", "+00:00">>))
    /\ FixityOf([status |-> Str(S_Scheduled)])
       => FixityGave(None, List(<<>>),
                     Msg("Arkivum fixity check in progress", None), None)
    /\ FixityOf([failures |-> FailureList(2)])
       => FixityGave(Bool(FALSE), FailureList(2), Msg("invalid bag", None), None)
    /\ FixityOf([failures |-> FailureList(1)])
       => FixityGave(Bool(FALSE), FailureList(1), Failure(1).v["reason"], None)

(***************************************************************************)
(* C8. check_package_fixity on a compressed package raises                 *)
(* NotImplementedError and sends nothing, with or without a request        *)
(* identifier on the package.                                              *)
(***************************************************************************)
C8_CompressedFixityUnsupported ==
    (op.name = "check_package_fixity" /\ before.is_compressed) =>
       /\ result.exc = "NotImplementedError"
       /\ wire = <<>>
       /\ ~info.called
       /\ package = before

C8_Witness ==
    /\ op.name = "check_package_fixity"
    /\ before.is_compressed
    /\ ~HasId(before)
    /\ result.exc = "NotImplementedError"

(***************************************************************************)
(* C9. Once the package's status is UPLOADED, no step changes it.          *)
(***************************************************************************)
C9_UploadedIsMonotonic ==
    [][package.status = UPLOADED => package'.status = UPLOADED]_vars

C9_Witness ==
    /\ op.name = "update_package_status"
    /\ before.status = UPLOADED
    /\ ExtractedReplication = Str(S_amber)
    /\ result.exc = NoExc
    /\ package.status = UPLOADED

(***************************************************************************)
(* C10, as stated. When status retrieval returns an error,                 *)
(* update_package_status returns the pair (the package's unchanged         *)
(* status, the error message) and neither changes nor saves the status.    *)
(***************************************************************************)
C10_ErrorReturnsUnchangedStatus ==
    (op.name = "update_package_status" /\ GotInfoError) =>
       /\ result.exc = NoExc
       /\ result.ret = <<Str(before.status), info.ret["error_message"]>>
       /\ package.status = before.status
       /\ db.status = before.status

(***************************************************************************)
(* C10, amended. When status retrieval returns an error,                   *)
(* update_package_status returns the pair (None, the error message) and    *)
(* neither changes nor saves the status.                                   *)
(***************************************************************************)
C10_ErrorReturnsNone ==
    (op.name = "update_package_status" /\ GotInfoError) =>
       /\ result.exc = NoExc
       /\ result.ret = <<None, info.ret["error_message"]>>
       /\ package.status = before.status
       /\ db.status = before.status

C10_Witness ==
    /\ op.name = "update_package_status"
    /\ GotInfoError
    /\ before.status = "PENDING"
    /\ result.ret[1] = None
    /\ package.status = "PENDING"

(***************************************************************************)
(* C11. Registration sends its POST once.  It records the id of the        *)
(* response body as the package's request identifier, and saves it,        *)
(* exactly when the appliance answers 200 or 202 with a body that parses;  *)
(* on a connection failure, a status that is no success or a body that     *)
(* does not parse it raises StorageException and leaves the package as it  *)
(* was.                                                                    *)
(***************************************************************************)
C11_RegistrationContract ==
    op.name = "post_move_from_storage_service" =>
       /\ Len(wire) = 1
       /\ LET e == wire[1]
              success == /\ e.fault = NoExc
                         /\ e.status_code \in {HTTP_OK, HTTP_ACCEPTED}
                         /\ e.parsable
          IN  /\ success <=> result.exc = NoExc
              /\ success =>
                   /\ "id" \in DOMAIN e.json
                   /\ HasId(package)
                   /\ package.misc_attributes[ID_KEY] = e.json["id"]
                   /\ db = package
              /\ (\/ e.fault = "ConnectionError"
                  \/ e.fault = NoExc /\ ~success)
                 => result.exc = "StorageException" /\ package = before

(***************************************************************************)
(* C12. A status retrieval for a package without a request identifier      *)
(* sends the registration POST exactly once; when the package has no       *)
(* identifier after it, the retrieval returns the structured error         *)
(* "Unable to contact Arkivum" and sends no status GET.                    *)
(***************************************************************************)
C12_SingleLazyRegistration ==
    (op.name \in StatusOps /\ info.called /\ ~HasId(before)) =>
       /\ Cardinality(Posts) = 1
       /\ ~HasId(package) =>
            /\ info.exc = NoExc
            /\ info.ret = ErrorResult(Msg("Unable to contact Arkivum", None))
            /\ StatusGets = {}

(***************************************************************************)
(* C13. is_file_local mails the superusers exactly when it returns False   *)
(* and email_nonlocal is true: nothing is mailed when it returns True or   *)
(* None, when it raises, or when email_nonlocal is false; and one call     *)
(* mails at most once, also when a bag without sub-path is checked         *)
(* through one of its files.                                               *)
(***************************************************************************)
C13_MailOnlyWhenNonLocal ==
    op.name = "is_file_local" =>
       /\ Len(mail) <= 1
       /\ Len(mail) = 1 <=> /\ result.exc = NoExc
                            /\ result.ret = Bool(FALSE)
                            /\ op.email_nonlocal

\* The call went on to the check of a single file of the bag.
CheckedSingleFile ==
    /\ op.name = "is_file_local"
    /\ ~before.is_compressed
    /\ ~Truthy(op.path)
    /\ GotInfo
    /\ "local" \notin DOMAIN info.ret
    /\ \E i \in DOMAIN wire : wire[i].url = "/api/2/files/fileInfo/"

C13_Witness ==
    /\ CheckedSingleFile
    /\ op.email_nonlocal
    /\ result.ret = Bool(FALSE)
    /\ Len(mail) = 1
    /\ mail[1].package_id = Str(<<"7">>)

(***************************************************************************)
(* C14. When status retrieval returns an error for a bag,                  *)
(* check_package_fixity returns (False, [], the error message, None).      *)
(***************************************************************************)
C14_FixityErrorTuple ==
    (op.name = "check_package_fixity" /\ GotInfoError) =>
       /\ ~before.is_compressed
       /\ result.exc = NoExc
       /\ result.ret = <<Bool(FALSE), List(<<>>), info.ret["error_message"], None>>

C14_Witness ==
    /\ op.name = "check_package_fixity"
    /\ GotInfoError
    /\ wire[Len(wire)].fault = "ConnectionError"
    /\ info.ret["error_message"] = Msg("Error fetching package status", None)
    /\ result.ret[1] = Bool(FALSE)

(***************************************************************************)
(* C15. The status operations are idempotent.  For a package that carries  *)
(* a request identifier, calling update_package_status, is_file_local      *)
(* without notification or check_package_fixity a second time, the         *)
(* appliance answering as it answered the first call, gives the return     *)
(* value (or exception) of the first call and leaves the package and its   *)
(* row as the first call left them.                                        *)
(***************************************************************************)
\* The outcomes of making the last call again, on the package as it is now.
Again ==
    CASE op.name = "update_package_status" -> update_package_status(World)
      [] op.name = "is_file_local" ->
           is_file_local(World, op.path, op.email_nonlocal)
      [] op.name = "check_package_fixity" -> check_package_fixity(World)
      [] OTHER -> {}

\* The appliance's answers to the requests on wr, in order.
Responses(wr) ==
    [i \in DOMAIN wr |-> [fault |-> wr[i].fault, status_code |-> wr[i].status_code,
                          parsable |-> wr[i].parsable, json |-> wr[i].json]]

SameResponses(o) == Responses(o.w.wire) = Responses(wire)

C15_Idempotent ==
    (op.name \in StatusOps /\ HasId(before) /\ ~op.email_nonlocal) =>
       LET same == {o \in Again : SameResponses(o)} IN
       /\ same # {}
       /\ \A o \in same :
            /\ o.exc = result.exc
            /\ o.ret = result.ret
            /\ o.w.package = package
            /\ o.w.db = db

C15_Witness ==
    /\ op.name = "update_package_status"
    /\ HasId(before)
    /\ before.status = "FAIL"
    /\ package.status = UPLOADED
    /\ result.ret[1] = Str(UPLOADED)
    /\ \E o \in Again : SameResponses(o) /\ o.ret = result.ret

(***************************************************************************)
(* C16. check_package_fixity is total on the payloads that are no error:   *)
(* for every status payload of a bag (status, replicationState present or  *)
(* absent, a failures list of length 0, 1 or more) it returns a 4-tuple    *)
(* whose success is True, False or None, and raises nothing.               *)
(***************************************************************************)
C16_FixityTotal ==
    (op.name = "check_package_fixity" /\ ~before.is_compressed /\ GotInfo) =>
       /\ result.exc = NoExc
       /\ Len(result.ret) = 4
       /\ result.ret[1] \in {Bool(TRUE), Bool(FALSE), None}

(***************************************************************************)
(* C17. is_file_local ends with True, False or None, and raises nothing;   *)
(* a bag without sub-path whose status payload has no local field is       *)
(* checked through one of its files, with at most one per-file request;    *)
(* this includes the package whose directory walk finds no file and the    *)
(* compressed payload without fileInformation.                             *)
(***************************************************************************)
C17_LocalityAlwaysAnswers ==
    op.name = "is_file_local" =>
       /\ result.exc = NoExc
       /\ result.ret \in {Bool(TRUE), Bool(FALSE), None}
       /\ Cardinality({i \in DOMAIN wire :
                         wire[i].url = "/api/2/files/fileInfo/"}) <= 1

(***************************************************************************)
(* C18. Only update_package_status writes the package's status:            *)
(* registration, is_file_local, check_package_fixity and the status and    *)
(* bag-info retrievals leave the status of the object and of its row as    *)
(* they were; and no operation, registration included, changes a key of    *)
(* the attribute bag other than arkivum_identifier.                        *)
(***************************************************************************)
C18_OnlyReconciliationWritesStatus ==
    /\ (\/ op.name # "update_package_status"
        \/ info.exc # NoExc
        \/ GotInfoError
        \/ baginfo.called /\ IsError(baginfo.ret))
       => package.status = before.status /\ db.status = before.status
    /\ DOMAIN package.misc_attributes \ {ID_KEY}
         = DOMAIN before.misc_attributes \ {ID_KEY}
    /\ \A k \in DOMAIN before.misc_attributes \ {ID_KEY} :
         package.misc_attributes[k] = before.misc_attributes[k]
    /\ db = package

C18_Witness ==
    /\ op.name = "is_file_local"
    /\ ~HasId(before)
    /\ "aip_subtype" \in DOMAIN before.misc_attributes
    /\ before.status = "PENDING"
    /\ Cardinality(Posts) = 1
    /\ HasId(package)
    /\ result.ret = Bool(TRUE)
    /\ package.status = "PENDING"
    /\ package.misc_attributes["aip_subtype"] = before.misc_attributes["aip_subtype"]

====
